---- MODULE Spec2Model ----
(***************************************************************************)
(* Model of src/config/have_sys_socket.c of stumpless: the sys/socket      *)
(* implementation of a network target.  One target is shared by a set of   *)
(* caller threads; every statement of every function that touches the      *)
(* target, the mutex or the operating system is one step of the calling    *)
(* thread, so that the interleavings the mutex allows (and those it        *)
(* forbids) are explicit.                                                  *)
(*                                                                         *)
(* The operating system is modelled by the set of connections that are     *)
(* open (live), the set of connections whose peer has shut down, and the   *)
(* outcomes recv, send, close and connect can have on them.  connect hands *)
(* out the lowest descriptor that is not open, as the OS does.  The        *)
(* per-call history (cl) is bookkeeping for the properties: it is dropped  *)
(* when the call returns.                                                  *)
(***************************************************************************)
EXTENDS Integers, Sequences, FiniteSets, TLC

\* ---------------------------------------------------------------- bounds
MaxMsgSize == 2
MaxCalls == 3
MaxZeroSends == 1

Threads == {1, 2}
Dests == {"host1", "host2"}
Ports == {514}

\* ------------------------------------------------------------- constants
ClosedHandle == 0 - 1
OsError == 0 - 1
SendOk == 1
SendFail == 0 - 1
NoThread == 0
\* a returned pointer: NULL, or the address of the one target
NULL == 0
TARGET == 1
\* what ret holds while a call has returned nothing yet
NoResult == 0 - 2

AF_INET == "AF_INET"
AF_INET6 == "AF_INET6"
SOCK_STREAM == "SOCK_STREAM"
SOCK_DGRAM == "SOCK_DGRAM"

Variants == {"tcp4", "tcp6", "udp4", "udp6"}

VARIABLES
  handle,       \* target->handle
  mutex,        \* target->mutex: the thread that holds it, or NoThread
  destination,  \* target->destination
  port,         \* target->port
  destroyed,    \* sys_socket_close_network_target has run
  live,         \* OS: connections created by connect and not yet closed
  peerShut,     \* OS: connections whose peer has sent its FIN
  closedTwice,  \* OS: close was called on an already closed connection
  closedNone,   \* OS: close was called on the closed sentinel
  pc,           \* per thread: the statement it is at
  op,           \* per thread: the call it is in and its arguments
  lv,           \* per thread: the local variables of the call
  cl,           \* per thread: what the call has done so far (history)
  ret,          \* per thread: the value the call returned
  unlocked,     \* the operations that touched target->handle without
                \* holding the mutex
  calls         \* number of calls started

vars == <<handle, mutex, destination, port, destroyed, live, peerShut,
          closedTwice, closedNone, pc, op, lv, cl, ret, unlocked, calls>>

targetVars == <<destination, port, destroyed>>
osVars == <<live, peerShut, closedTwice, closedNone>>

\* ------------------------------------------------------------- messages
\* the payloads: one of every size, its bytes pairwise distinct (byte i of
\* the payload has the value i) so that a byte sent twice, left out or out
\* of place shows on the wire
Payload(n) == [i \in 1..n |-> i]

Messages == {Payload(n) : n \in 0..MaxMsgSize}

\* ------------------------------------------------- per-call bookkeeping
NoOp == [name |-> "none", variant |-> "none", msg |-> <<>>, msg_size |-> 0]

InitLocals == [result |-> 0, sent_bytes |-> 0, recv_result |-> 0,
               send_result |-> 0, sresult |-> 1, errno |-> "none"]

InitHistory ==
  [hLock |-> ClosedHandle,    \* handle when the mutex was acquired
   nLock |-> 0, nUnlock |-> 0,
   nConnect |-> 0, nClose |-> 0, nSend |-> 0, nRecv |-> 0,
   closedH |-> ClosedHandle,  \* the handle last passed to close
   connected |-> ClosedHandle,\* the last result of connect
   conn |-> <<>>,             \* the arguments of the last connect
   wire |-> <<>>,             \* the bytes the send calls handed over
   errs |-> <<>>,             \* the errors raised
   nZero |-> 0,               \* the sends that accepted 0 bytes
   reqLen |-> 0,              \* the length the last send was asked to send
   sendFailed |-> FALSE,      \* a send returned an error
   sendErrno |-> "none",      \* the errno that send left
   shutEarly |-> FALSE,       \* the peer shut down before all was sent
   sawClosed |-> FALSE]       \* a recv returned 0

\* the history counts calls up to CountCap; no call of Spec gets that far
CountCap == MaxMsgSize + MaxZeroSends + 2

Bump(n) == IF n < CountCap THEN n + 1 ELSE n

\* ---------------------------------------------------------------- is_open
\* src 249-252
sys_socket_network_target_is_open(h) == h # ClosedHandle

\* ------------------------------------------------------------------ Init
\* the state after sys_socket_init_network_target (src 42-46)
Init ==
  /\ handle = ClosedHandle
  /\ mutex = NoThread
  /\ destination \in Dests
  /\ port \in Ports
  /\ destroyed = FALSE
  /\ live = {}
  /\ peerShut = {}
  /\ closedTwice = FALSE
  /\ closedNone = FALSE
  /\ pc = [t \in Threads |-> "idle"]
  /\ op = [t \in Threads |-> NoOp]
  /\ lv = [t \in Threads |-> InitLocals]
  /\ cl = [t \in Threads |-> InitHistory]
  /\ ret = [t \in Threads |-> NoResult]
  /\ unlocked = {}
  /\ calls = 0

\* ------------------------------------------------- the operating system
\* recv( handle, buffer, 1, MSG_DONTWAIT ) (src 195): EBADF on a handle that
\* is not an open connection, 0 once the peer has shut down, otherwise
\* EAGAIN (nothing to read) or one byte the peer sent earlier
RecvOutcomes(h) ==
  IF h \notin live THEN {OsError}
  ELSE IF h \in peerShut THEN {0, 1}
  ELSE {OsError, 1}

\* send( handle, buf, len, flag ) (src 204-207, 231-234): an error, or the
\* number of bytes accepted; zero stands for a send that accepted nothing
SendOutcomes(h, len, zeroAllowed) ==
  IF h \notin live THEN {OsError}
  ELSE {OsError} \cup (1..len) \cup (IF zeroAllowed \/ len = 0 THEN {0} ELSE {})

SendErrnos(h) == IF h \notin live THEN {"EBADF"} ELSE {"EPIPE"}

\* config_int_connect( destination, port, domain, type, 0 ) (src 53-57):
\* the failure sentinel, or a new connection under the lowest descriptor
\* that is not open
LowestFree ==
  CHOOSE n \in 1..(Cardinality(live) + 1) :
    n \notin live /\ \A m \in 1..(n - 1) : m \in live

ConnectOutcomes == {ClosedHandle, LowestFree}

OsConnect(r) ==
  /\ live' = IF r = ClosedHandle THEN live ELSE live \cup {r}
  /\ UNCHANGED <<peerShut, closedTwice, closedNone>>

\* close( handle ) (src 36, 117, 198)
OsClose(h) ==
  /\ live' = live \ {h}
  /\ peerShut' = peerShut \ {h}
  /\ closedNone' = (closedNone \/ h = ClosedHandle)
  /\ closedTwice' = (closedTwice \/ (h # ClosedHandle /\ h \notin live))

\* ------------------------------------------------------------ the mutex
\* mutant: the lock does not wait for the holder to release the mutex
LockMutex_nonblocking(t) == mutex' = t

\* lock_network_target( target ) (src 52, 114, 190, 230)
LockMutex(t) ==
  /\ mutex = NoThread
  /\ mutex' = t

\* unlock_network_target( target ) (src 59, 125, 220, 237, 244)
UnlockMutex(t) == mutex' = NoThread

\* thread t, in operation name, reads or writes target->handle
Access(t, name) ==
  unlocked' = IF mutex = t THEN unlocked ELSE unlocked \cup {name}

\* ------------------------------------------------------ step bookkeeping
Quiet(t) == pc[t] = "idle"

Goto(t, newpc) == pc' = [pc EXCEPT ![t] = newpc]

Locked(t) ==
  cl' = [cl EXCEPT ![t].hLock = handle, ![t].nLock = @ + 1,
                   ![t].shutEarly = (op[t].name = "sendto_tcp"
                                     /\ op[t].msg_size > 0
                                     /\ handle \in peerShut)]

Unlocked(t) ==
  cl' = [cl EXCEPT ![t].nUnlock = @ + 1]

\* the call of thread t returns r: its frame is gone
Return(t, r) ==
  /\ Goto(t, "idle")
  /\ ret' = [ret EXCEPT ![t] = r]
  /\ op' = [op EXCEPT ![t] = NoOp]
  /\ lv' = [lv EXCEPT ![t] = InitLocals]
  /\ cl' = [cl EXCEPT ![t] = InitHistory]

\* a caller starts a call
Call(t, name, variant, msg, first) ==
  /\ ~destroyed
  /\ Quiet(t)
  /\ calls < MaxCalls
  /\ calls' = calls + 1
  /\ op' = [op EXCEPT ![t] = [name |-> name, variant |-> variant,
                               msg |-> msg, msg_size |-> Len(msg)]]
  /\ lv' = [lv EXCEPT ![t] = InitLocals]
  /\ cl' = [cl EXCEPT ![t] = InitHistory]
  /\ ret' = [ret EXCEPT ![t] = NoResult]
  /\ Goto(t, first)
  /\ UNCHANGED <<handle, mutex, unlocked>>
  /\ UNCHANGED targetVars
  /\ UNCHANGED osVars

\* ------------------------------------------------------------- open_*
\* the (domain, type) arguments of the four open functions
OpenFamily(v) ==
  CASE v = "tcp4" -> AF_INET    \* src 55
    [] v = "tcp6" -> AF_INET6   \* src 71
    [] v = "udp4" -> AF_INET    \* src 87
    [] v = "udp6" -> AF_INET6   \* src 103

OpenType(v) ==
  CASE v = "tcp4" -> SOCK_STREAM  \* src 56
    [] v = "tcp6" -> SOCK_STREAM  \* src 72
    [] v = "udp4" -> SOCK_DGRAM   \* src 88
    [] v = "udp6" -> SOCK_DGRAM   \* src 104

\* a connect to one fixed host instead of the target's destination
OpenArgs_fixed_host(v) == <<"host1", port, OpenFamily(v), OpenType(v)>>

\* the arguments of config_int_connect in the open functions (src 53-57)
OpenArgs(v) == <<destination, port, OpenFamily(v), OpenType(v)>>

open_call(t) ==
  \E v \in Variants : Call(t, "open", v, <<>>, "open_lock")

\* src 52
open_lock(t) ==
  /\ pc[t] = "open_lock"
  /\ LockMutex(t)
  /\ Locked(t)
  /\ Goto(t, "open_connect")
  /\ UNCHANGED <<handle, op, lv, ret, unlocked, calls>>
  /\ UNCHANGED targetVars
  /\ UNCHANGED osVars

\* src 53-57
open_connect(t) ==
  /\ pc[t] = "open_connect"
  /\ \E r \in ConnectOutcomes :
       /\ OsConnect(r)
       /\ lv' = [lv EXCEPT ![t].result = r]
       /\ cl' = [cl EXCEPT ![t].nConnect = @ + 1,
                           ![t].connected = r,
                           ![t].conn = OpenArgs(op[t].variant)]
  /\ Goto(t, "open_store")
  /\ UNCHANGED <<handle, mutex, op, ret, unlocked, calls>>
  /\ UNCHANGED targetVars

\* src 58
open_store(t) ==
  /\ pc[t] = "open_store"
  /\ handle' = lv[t].result
  /\ Access(t, "open")
  /\ Goto(t, "open_unlock")
  /\ UNCHANGED <<mutex, op, lv, cl, ret, calls>>
  /\ UNCHANGED targetVars
  /\ UNCHANGED osVars

\* mutant: open returns the target whatever connect returned
OpenResult_always_target(result) == TARGET

\* src 61
OpenResult(result) == IF result = ClosedHandle THEN NULL ELSE TARGET

\* src 59-61: unlock and return
open_unlock(t) ==
  /\ pc[t] = "open_unlock"
  /\ UnlockMutex(t)
  /\ Return(t, OpenResult(lv[t].result))
  /\ UNCHANGED <<handle, unlocked, calls>>
  /\ UNCHANGED targetVars
  /\ UNCHANGED osVars

\* ------------------------------------------------------------ reopen_*
ReopenFamily(v) ==
  CASE v = "tcp4" -> AF_INET    \* src 120
    [] v = "tcp6" -> AF_INET6   \* src 137
    [] v = "udp4" -> AF_INET    \* src 154
    [] v = "udp6" -> AF_INET6   \* src 171

\* mutant: every reopen asks for a datagram socket
ReopenType_dgram(v) == SOCK_DGRAM

ReopenType(v) ==
  CASE v = "tcp4" -> SOCK_STREAM  \* src 121
    [] v = "tcp6" -> SOCK_STREAM  \* src 138
    [] v = "udp4" -> SOCK_DGRAM   \* src 155
    [] v = "udp6" -> SOCK_DGRAM   \* src 172

\* the arguments of config_int_connect in the reopen functions (src 118-122)
ReopenArgs(v) == <<destination, port, ReopenFamily(v), ReopenType(v)>>

reopen_call(t) ==
  \E v \in Variants : Call(t, "reopen", v, <<>>, "reopen_lock")

\* src 114
reopen_lock(t) ==
  /\ pc[t] = "reopen_lock"
  /\ LockMutex(t)
  /\ Locked(t)
  /\ Goto(t, "reopen_check")
  /\ UNCHANGED <<handle, op, lv, ret, unlocked, calls>>
  /\ UNCHANGED targetVars
  /\ UNCHANGED osVars

\* mutant: reopen does not test whether the target is open
reopen_check_unconditional(t) ==
  /\ pc[t] = "reopen_check"
  /\ Goto(t, "reopen_close")
  /\ UNCHANGED <<handle, mutex, op, lv, cl, ret, unlocked, calls>>
  /\ UNCHANGED targetVars
  /\ UNCHANGED osVars

\* src 116
reopen_check(t) ==
  /\ pc[t] = "reopen_check"
  /\ Access(t, "reopen")
  /\ IF sys_socket_network_target_is_open(handle)
       THEN Goto(t, "reopen_close")
       ELSE Goto(t, "reopen_unlock")
  /\ UNCHANGED <<handle, mutex, op, lv, cl, ret, calls>>
  /\ UNCHANGED targetVars
  /\ UNCHANGED osVars

\* src 117
reopen_close(t) ==
  /\ pc[t] = "reopen_close"
  /\ Access(t, "reopen")
  /\ OsClose(handle)
  /\ cl' = [cl EXCEPT ![t].nClose = @ + 1, ![t].closedH = handle]
  /\ Goto(t, "reopen_connect")
  /\ UNCHANGED <<handle, mutex, op, lv, ret, calls>>
  /\ UNCHANGED targetVars

\* src 118-122
reopen_connect(t) ==
  /\ pc[t] = "reopen_connect"
  /\ \E r \in ConnectOutcomes :
       /\ OsConnect(r)
       /\ handle' = r
       /\ cl' = [cl EXCEPT ![t].nConnect = @ + 1,
                           ![t].connected = r,
                           ![t].conn = ReopenArgs(op[t].variant)]
  /\ Access(t, "reopen")
  /\ Goto(t, "reopen_unlock")
  /\ UNCHANGED <<mutex, op, lv, ret, calls>>
  /\ UNCHANGED targetVars

\* src 125-126: unlock and return
reopen_unlock(t) ==
  /\ pc[t] = "reopen_unlock"
  /\ UnlockMutex(t)
  /\ Return(t, TARGET)
  /\ UNCHANGED <<handle, unlocked, calls>>
  /\ UNCHANGED targetVars
  /\ UNCHANGED osVars

\* ----------------------------------------------------------- sendto_tcp
InTcpLoop(t) ==
  pc[t] \in {"tcp_while", "tcp_recv", "tcp_send", "tcp_add"}

\* the bytes of the call still to be accepted by the OS
Outstanding(t) ==
  IF pc[t] = "tcp_add"
    THEN lv[t].sent_bytes + lv[t].send_result < op[t].msg_size
    ELSE lv[t].sent_bytes < op[t].msg_size

\* the buffer and length the send of src 204-207 is given
TcpSendLen(msg_size, sent_bytes) == msg_size - sent_bytes

TcpSendBuf(msg, msg_size, sent_bytes) ==
  SubSeq(msg, 1, TcpSendLen(msg_size, sent_bytes))

sendto_tcp_call(t) ==
  \E m \in Messages : Call(t, "sendto_tcp", "none", m, "tcp_lock")

\* mutant: sendto_tcp enters its loop without taking the mutex
tcp_lock_missing(t) ==
  /\ pc[t] = "tcp_lock"
  /\ Locked(t)
  /\ Goto(t, "tcp_while")
  /\ UNCHANGED <<handle, mutex, op, lv, ret, unlocked, calls>>
  /\ UNCHANGED targetVars
  /\ UNCHANGED osVars

\* src 190
tcp_lock(t) ==
  /\ pc[t] = "tcp_lock"
  /\ LockMutex(t)
  /\ Locked(t)
  /\ Goto(t, "tcp_while")
  /\ UNCHANGED <<handle, op, lv, ret, unlocked, calls>>
  /\ UNCHANGED targetVars
  /\ UNCHANGED osVars

\* a loop condition that is off by one (<= for <)
tcp_while_inclusive(t) ==
  /\ pc[t] = "tcp_while"
  /\ IF lv[t].sent_bytes <= op[t].msg_size
       THEN Goto(t, "tcp_recv")
       ELSE Goto(t, "tcp_unlock")
  /\ UNCHANGED <<handle, mutex, op, lv, cl, ret, unlocked, calls>>
  /\ UNCHANGED targetVars
  /\ UNCHANGED osVars

\* a loop that tests its condition only after the first iteration
tcp_while_body_first(t) ==
  /\ pc[t] = "tcp_while"
  /\ IF lv[t].sent_bytes < op[t].msg_size \/ cl[t].nRecv = 0
       THEN Goto(t, "tcp_recv")
       ELSE Goto(t, "tcp_unlock")
  /\ UNCHANGED <<handle, mutex, op, lv, cl, ret, unlocked, calls>>
  /\ UNCHANGED targetVars
  /\ UNCHANGED osVars

\* src 193
tcp_while(t) ==
  /\ pc[t] = "tcp_while"
  /\ IF lv[t].sent_bytes < op[t].msg_size
       THEN Goto(t, "tcp_recv")
       ELSE Goto(t, "tcp_unlock")
  /\ UNCHANGED <<handle, mutex, op, lv, cl, ret, unlocked, calls>>
  /\ UNCHANGED targetVars
  /\ UNCHANGED osVars

\* a closure check that takes a failed recv for a closed peer
tcp_recv_error_closes(t) ==
  /\ pc[t] = "tcp_recv"
  /\ Access(t, "sendto_tcp")
  /\ \E r \in RecvOutcomes(handle) :
       /\ lv' = [lv EXCEPT ![t].recv_result = r,
                           ![t].errno = IF r = OsError
                                          THEN (IF handle \in live
                                                  THEN "EAGAIN" ELSE "EBADF")
                                          ELSE @]
       /\ cl' = [cl EXCEPT ![t].nRecv = Bump(@),
                           ![t].sawClosed = (@ \/ r <= 0)]
       /\ IF r <= 0 THEN Goto(t, "tcp_raise_closed") ELSE Goto(t, "tcp_send")
  /\ UNCHANGED <<handle, mutex, op, ret, calls>>
  /\ UNCHANGED targetVars
  /\ UNCHANGED osVars

\* src 195-196
tcp_recv(t) ==
  /\ pc[t] = "tcp_recv"
  /\ Access(t, "sendto_tcp")
  /\ \E r \in RecvOutcomes(handle) :
       /\ lv' = [lv EXCEPT ![t].recv_result = r,
                           ![t].errno = IF r = OsError
                                          THEN (IF handle \in live
                                                  THEN "EAGAIN" ELSE "EBADF")
                                          ELSE @]
       /\ cl' = [cl EXCEPT ![t].nRecv = Bump(@),
                           ![t].sawClosed = (@ \/ r = 0)]
       /\ IF r = 0 THEN Goto(t, "tcp_raise_closed") ELSE Goto(t, "tcp_send")
  /\ UNCHANGED <<handle, mutex, op, ret, calls>>
  /\ UNCHANGED targetVars
  /\ UNCHANGED osVars

\* src 197
tcp_raise_closed(t) ==
  /\ pc[t] = "tcp_raise_closed"
  /\ cl' = [cl EXCEPT ![t].errs = Append(@, <<"network_closed">>)]
  /\ Goto(t, "tcp_close")
  /\ UNCHANGED <<handle, mutex, op, lv, ret, unlocked, calls>>
  /\ UNCHANGED targetVars
  /\ UNCHANGED osVars

\* src 198
tcp_close(t) ==
  /\ pc[t] = "tcp_close"
  /\ Access(t, "sendto_tcp")
  /\ OsClose(handle)
  /\ cl' = [cl EXCEPT ![t].nClose = @ + 1, ![t].closedH = handle]
  /\ Goto(t, "tcp_reset")
  /\ UNCHANGED <<handle, mutex, op, lv, ret, calls>>
  /\ UNCHANGED targetVars

\* mutant: the peer-closed path closes the handle but does not reset it
tcp_reset_keeps_handle(t) ==
  /\ pc[t] = "tcp_reset"
  /\ lv' = [lv EXCEPT ![t].sresult = SendFail]
  /\ Goto(t, "tcp_unlock")
  /\ UNCHANGED <<handle, mutex, op, cl, ret, unlocked, calls>>
  /\ UNCHANGED targetVars
  /\ UNCHANGED osVars

\* src 199-201
tcp_reset(t) ==
  /\ pc[t] = "tcp_reset"
  /\ handle' = ClosedHandle
  /\ Access(t, "sendto_tcp")
  /\ lv' = [lv EXCEPT ![t].sresult = SendFail]
  /\ Goto(t, "tcp_unlock")
  /\ UNCHANGED <<mutex, op, cl, ret, calls>>
  /\ UNCHANGED targetVars
  /\ UNCHANGED osVars

\* src 204-209; zeroAllowed: the OS may accept no byte of this send
TcpSend(t, zeroAllowed) ==
  /\ pc[t] = "tcp_send"
  /\ Access(t, "sendto_tcp")
  /\ \E n \in SendOutcomes(handle,
                           TcpSendLen(op[t].msg_size, lv[t].sent_bytes),
                           zeroAllowed) :
       /\ IF n = OsError
            THEN /\ \E e \in SendErrnos(handle) :
                      /\ lv' = [lv EXCEPT ![t].send_result = n,
                                          ![t].errno = e]
                      /\ cl' = [cl EXCEPT
                           ![t].nSend = Bump(@),
                           ![t].reqLen = TcpSendLen(op[t].msg_size,
                                                    lv[t].sent_bytes),
                           ![t].sendFailed = TRUE,
                           ![t].sendErrno = e]
                 /\ Goto(t, "tcp_send_failed")
            ELSE /\ lv' = [lv EXCEPT ![t].send_result = n]
                 /\ cl' = [cl EXCEPT
                      ![t].nSend = Bump(@),
                      ![t].nZero = IF n = 0 THEN Bump(@) ELSE @,
                      ![t].reqLen = TcpSendLen(op[t].msg_size,
                                               lv[t].sent_bytes),
                      ![t].wire = @ \o SubSeq(TcpSendBuf(op[t].msg,
                                                         op[t].msg_size,
                                                         lv[t].sent_bytes),
                                              1, n)]
                 /\ Goto(t, "tcp_add")
  /\ UNCHANGED <<handle, mutex, op, ret, calls>>
  /\ UNCHANGED targetVars
  /\ UNCHANGED osVars

\* the send of sendto_tcp when the OS accepts no byte at most MaxZeroSends
\* times in a call
tcp_send(t) == TcpSend(t, cl[t].nZero < MaxZeroSends)

\* the send of sendto_tcp when the OS may accept no byte any number of times
tcp_send_any(t) == TcpSend(t, TRUE)

\* mutant: a failed send resets the handle as the peer-closed path does
tcp_send_failed_resets(t) ==
  /\ pc[t] = "tcp_send_failed"
  /\ cl' = [cl EXCEPT ![t].errs = Append(@, <<"send_failure", lv[t].errno>>)]
  /\ lv' = [lv EXCEPT ![t].sresult = SendFail]
  /\ handle' = ClosedHandle
  /\ Access(t, "sendto_tcp")
  /\ Goto(t, "tcp_unlock")
  /\ UNCHANGED <<mutex, op, ret, calls>>
  /\ UNCHANGED targetVars
  /\ UNCHANGED osVars

\* a send failure that leaves result at its initial value
tcp_send_failed_keeps_result(t) ==
  /\ pc[t] = "tcp_send_failed"
  /\ cl' = [cl EXCEPT ![t].errs = Append(@, <<"send_failure", lv[t].errno>>)]
  /\ Goto(t, "tcp_unlock")
  /\ UNCHANGED <<handle, mutex, op, lv, ret, unlocked, calls>>
  /\ UNCHANGED targetVars
  /\ UNCHANGED osVars

\* src 210-214
tcp_send_failed(t) ==
  /\ pc[t] = "tcp_send_failed"
  /\ cl' = [cl EXCEPT ![t].errs = Append(@, <<"send_failure", lv[t].errno>>)]
  /\ lv' = [lv EXCEPT ![t].sresult = SendFail]
  /\ Goto(t, "tcp_unlock")
  /\ UNCHANGED <<handle, mutex, op, ret, unlocked, calls>>
  /\ UNCHANGED targetVars
  /\ UNCHANGED osVars

\* the accepted bytes are not added to sent_bytes
tcp_add_forgets(t) ==
  /\ pc[t] = "tcp_add"
  /\ Goto(t, "tcp_while")
  /\ UNCHANGED <<handle, mutex, op, lv, cl, ret, unlocked, calls>>
  /\ UNCHANGED targetVars
  /\ UNCHANGED osVars

\* src 217
tcp_add(t) ==
  /\ pc[t] = "tcp_add"
  /\ lv' = [lv EXCEPT ![t].sent_bytes = @ + lv[t].send_result]
  /\ Goto(t, "tcp_while")
  /\ UNCHANGED <<handle, mutex, op, cl, ret, unlocked, calls>>
  /\ UNCHANGED targetVars
  /\ UNCHANGED osVars

\* src 220-221: unlock and return
tcp_unlock(t) ==
  /\ pc[t] = "tcp_unlock"
  /\ UnlockMutex(t)
  /\ Return(t, lv[t].sresult)
  /\ UNCHANGED <<handle, unlocked, calls>>
  /\ UNCHANGED targetVars
  /\ UNCHANGED osVars

\* ----------------------------------------------------------- sendto_udp
sendto_udp_call(t) ==
  \E m \in Messages : Call(t, "sendto_udp", "none", m, "udp_lock")

\* src 230
udp_lock(t) ==
  /\ pc[t] = "udp_lock"
  /\ LockMutex(t)
  /\ Locked(t)
  /\ Goto(t, "udp_send")
  /\ UNCHANGED <<handle, op, lv, ret, unlocked, calls>>
  /\ UNCHANGED targetVars
  /\ UNCHANGED osVars

\* a send of sendto_udp that leaves out the last byte
UdpSendLen_short(msg_size) == IF msg_size > 0 THEN msg_size - 1 ELSE 0

\* the length the send of sendto_udp is given (src 233)
UdpSendLen(msg_size) == msg_size

\* src 231-236
udp_send(t) ==
  /\ pc[t] = "udp_send"
  /\ Access(t, "sendto_udp")
  /\ \E n \in SendOutcomes(handle, UdpSendLen(op[t].msg_size), FALSE) :
       /\ IF n = OsError
            THEN /\ \E e \in SendErrnos(handle) :
                      /\ lv' = [lv EXCEPT ![t].send_result = n,
                                          ![t].errno = e]
                      /\ cl' = [cl EXCEPT
                           ![t].nSend = Bump(@),
                           ![t].reqLen = UdpSendLen(op[t].msg_size),
                           ![t].sendFailed = TRUE,
                           ![t].sendErrno = e]
                 /\ Goto(t, "udp_unlock_failed")
            ELSE /\ lv' = [lv EXCEPT ![t].send_result = n]
                 /\ cl' = [cl EXCEPT ![t].nSend = Bump(@),
                                     ![t].reqLen = UdpSendLen(op[t].msg_size),
                                     ![t].wire = @ \o SubSeq(op[t].msg, 1, n)]
                 /\ Goto(t, "udp_unlock")
  /\ UNCHANGED <<handle, mutex, op, ret, calls>>
  /\ UNCHANGED targetVars
  /\ UNCHANGED osVars

\* mutant: the failure path of sendto_udp does not unlock
udp_unlock_failed_missing(t) ==
  /\ pc[t] = "udp_unlock_failed"
  /\ Goto(t, "udp_raise")
  /\ UNCHANGED <<handle, mutex, op, lv, cl, ret, unlocked, calls>>
  /\ UNCHANGED targetVars
  /\ UNCHANGED osVars

\* src 237
udp_unlock_failed(t) ==
  /\ pc[t] = "udp_unlock_failed"
  /\ UnlockMutex(t)
  /\ Unlocked(t)
  /\ Goto(t, "udp_raise")
  /\ UNCHANGED <<handle, op, lv, ret, unlocked, calls>>
  /\ UNCHANGED targetVars
  /\ UNCHANGED osVars

\* a failed send of sendto_udp that is not reported
udp_raise_silent(t) ==
  /\ pc[t] = "udp_raise"
  /\ Goto(t, "udp_return_failed")
  /\ UNCHANGED <<handle, mutex, op, lv, cl, ret, unlocked, calls>>
  /\ UNCHANGED targetVars
  /\ UNCHANGED osVars

\* src 238-240
udp_raise(t) ==
  /\ pc[t] = "udp_raise"
  /\ cl' = [cl EXCEPT ![t].errs = Append(@, <<"send_failure", lv[t].errno>>)]
  /\ Goto(t, "udp_return_failed")
  /\ UNCHANGED <<handle, mutex, op, lv, ret, unlocked, calls>>
  /\ UNCHANGED targetVars
  /\ UNCHANGED osVars

\* src 241
udp_return_failed(t) ==
  /\ pc[t] = "udp_return_failed"
  /\ Return(t, SendFail)
  /\ UNCHANGED <<handle, mutex, unlocked, calls>>
  /\ UNCHANGED targetVars
  /\ UNCHANGED osVars

\* src 244-246: unlock and return
udp_unlock(t) ==
  /\ pc[t] = "udp_unlock"
  /\ UnlockMutex(t)
  /\ Return(t, SendOk)
  /\ UNCHANGED <<handle, unlocked, calls>>
  /\ UNCHANGED targetVars
  /\ UNCHANGED osVars

\* -------------------------------------------------------------- is_open
\* a caller's own call of sys_socket_network_target_is_open (src 249-252):
\* it takes no lock
is_open_call(t) ==
  /\ ~destroyed
  /\ Quiet(t)
  /\ calls < MaxCalls
  /\ calls' = calls + 1
  /\ Access(t, "is_open")
  /\ ret' = [ret EXCEPT ![t] =
                IF sys_socket_network_target_is_open(handle) THEN 1 ELSE 0]
  /\ UNCHANGED <<handle, mutex, pc, op, lv, cl>>
  /\ UNCHANGED targetVars
  /\ UNCHANGED osVars

\* -------------------------------------------------------------- destroy
\* a destroy that closes the handle without testing it
sys_socket_close_network_target_unchecked(t) ==
  /\ ~destroyed
  /\ \A u \in Threads : Quiet(u)
  /\ Access(t, "destroy")
  /\ OsClose(handle)
  /\ destroyed' = TRUE
  /\ UNCHANGED <<handle, mutex, destination, port, pc, op, lv, cl, ret,
                 calls>>

\* sys_socket_close_network_target (src 33-40); the owner calls it as the
\* last operation, when every other call has returned
sys_socket_close_network_target(t) ==
  /\ ~destroyed
  /\ \A u \in Threads : Quiet(u)
  /\ Access(t, "destroy")
  /\ IF handle # ClosedHandle
       THEN OsClose(handle)
       ELSE UNCHANGED osVars
  /\ destroyed' = TRUE
  /\ UNCHANGED <<handle, mutex, destination, port, pc, op, lv, cl, ret,
                 calls>>

\* ------------------------------------------------------------- the peer
\* the peer of an open connection shuts it down (sends its FIN)
PeerShutdown ==
  /\ ~destroyed
  /\ \E h \in (live \ peerShut) \cap {handle} :
       /\ peerShut' = peerShut \cup {h}
       /\ cl' = [t \in Threads |->
                   IF /\ op[t].name = "sendto_tcp"
                      /\ InTcpLoop(t)
                      /\ Outstanding(t)
                      /\ h = handle
                     THEN [cl[t] EXCEPT !.shutEarly = TRUE]
                     ELSE cl[t]]
  /\ UNCHANGED <<handle, mutex, pc, op, lv, ret, unlocked, calls>>
  /\ UNCHANGED <<live, closedTwice, closedNone>>
  /\ UNCHANGED targetVars

\* ----------------------------------------------------------------- Next
Next ==
  \/ \E t \in Threads : open_call(t)
  \/ \E t \in Threads : open_lock(t)
  \/ \E t \in Threads : open_connect(t)
  \/ \E t \in Threads : open_store(t)
  \/ \E t \in Threads : open_unlock(t)
  \/ \E t \in Threads : reopen_call(t)
  \/ \E t \in Threads : reopen_lock(t)
  \/ \E t \in Threads : reopen_check(t)
  \/ \E t \in Threads : reopen_close(t)
  \/ \E t \in Threads : reopen_connect(t)
  \/ \E t \in Threads : reopen_unlock(t)
  \/ \E t \in Threads : sendto_tcp_call(t)
  \/ \E t \in Threads : tcp_lock(t)
  \/ \E t \in Threads : tcp_while(t)
  \/ \E t \in Threads : tcp_recv(t)
  \/ \E t \in Threads : tcp_raise_closed(t)
  \/ \E t \in Threads : tcp_close(t)
  \/ \E t \in Threads : tcp_reset(t)
  \/ \E t \in Threads : tcp_send(t)
  \/ \E t \in Threads : tcp_send_failed(t)
  \/ \E t \in Threads : tcp_add(t)
  \/ \E t \in Threads : tcp_unlock(t)
  \/ \E t \in Threads : sendto_udp_call(t)
  \/ \E t \in Threads : udp_lock(t)
  \/ \E t \in Threads : udp_send(t)
  \/ \E t \in Threads : udp_unlock_failed(t)
  \/ \E t \in Threads : udp_raise(t)
  \/ \E t \in Threads : udp_return_failed(t)
  \/ \E t \in Threads : udp_unlock(t)
  \/ \E t \in Threads : is_open_call(t)
  \/ \E t \in Threads : sys_socket_close_network_target(t)
  \/ PeerShutdown

Spec == Init /\ [][Next]_vars

\* ------------------------------------------------------------- liveness
\* the steps of thread t inside a call, the OS being free to accept no byte
\* of a send of sendto_tcp any number of times
Running(t) ==
  \/ open_lock(t) \/ open_connect(t) \/ open_store(t) \/ open_unlock(t)
  \/ reopen_lock(t) \/ reopen_check(t) \/ reopen_close(t)
  \/ reopen_connect(t) \/ reopen_unlock(t)
  \/ tcp_lock(t) \/ tcp_while(t) \/ tcp_recv(t) \/ tcp_raise_closed(t)
  \/ tcp_close(t) \/ tcp_reset(t) \/ tcp_send_any(t) \/ tcp_send_failed(t)
  \/ tcp_add(t) \/ tcp_unlock(t)
  \/ udp_lock(t) \/ udp_send(t) \/ udp_unlock_failed(t) \/ udp_raise(t)
  \/ udp_return_failed(t) \/ udp_unlock(t)

NextLive ==
  \/ \E t \in Threads : open_call(t)
  \/ \E t \in Threads : reopen_call(t)
  \/ \E t \in Threads : sendto_tcp_call(t)
  \/ \E t \in Threads : sendto_udp_call(t)
  \/ \E t \in Threads : is_open_call(t)
  \/ \E t \in Threads : sys_socket_close_network_target(t)
  \/ \E t \in Threads : Running(t)
  \/ PeerShutdown

\* a thread that is inside a call and can take a step takes one: the OS
\* schedules it, and every recv, send, close and connect returns (every
\* step of Running moves pc)
LiveSpec ==
  /\ Init
  /\ [][NextLive]_vars
  /\ \A t \in Threads : WF_pc(Running(t))


\* ================================================================ claims
CriticalPcs ==
  {"open_connect", "open_store", "open_unlock",
   "reopen_check", "reopen_close", "reopen_connect", "reopen_unlock",
   "tcp_while", "tcp_recv", "tcp_raise_closed", "tcp_close", "tcp_reset",
   "tcp_send", "tcp_send_failed", "tcp_add", "tcp_unlock",
   "udp_send", "udp_unlock_failed", "udp_unlock"}

LockPcs == {"open_lock", "reopen_lock", "tcp_lock", "udp_lock"}

\* thread t is between its lock and its unlock
InCritical(t) == pc[t] \in CriticalPcs

\* thread t returns from its call in this step
Returning(t) == pc[t] # "idle" /\ pc'[t] = "idle"

\* C1: a sendto_tcp call that is about to return success, whose send calls
\* each accepted at least one byte and whose peer did not shut down, has
\* handed to the OS exactly the bytes of msg, in order.
C1_PayloadDeliveredInOrder ==
  \A t \in Threads :
    (/\ pc[t] = "tcp_unlock"
     /\ lv[t].sresult = SendOk
     /\ cl[t].nZero = 0
     /\ ~cl[t].shutEarly)
      => cl[t].wire = op[t].msg

\* C2: at most one connection created for the target is open at any time.
C2_AtMostOneLiveHandle == Cardinality(live) <= 1


LockingOps == {"open", "reopen", "sendto_tcp", "sendto_udp"}

\* C3 (as claimed): every read and write of target->handle by open_*,
\* reopen_*, sendto_tcp, sendto_udp and by the close of destroy is made by a
\* thread that holds the mutex.
C3_EveryAccessUnderMutex ==
  unlocked \cap (LockingOps \cup {"destroy"}) = {}

\* C3 (amended): every read and write of target->handle by open_*,
\* reopen_*, sendto_tcp and sendto_udp is made by a thread that holds the
\* mutex (destroy reads and closes the handle without taking it).
C3_OperationsAccessUnderMutex == unlocked \cap LockingOps = {}

\* C3 witness: sendto_tcp has read, closed and reset the handle and still
\* holds the mutex.
C3_Witness ==
  \E t \in Threads :
    pc[t] = "tcp_unlock" /\ cl[t].nClose = 1 /\ mutex = t

\* C4 (as claimed): a sendto_tcp call during which, or before which, the
\* peer shut down while bytes were still to be sent returns failure and
\* leaves the target closed.
C4_ShutdownBeforeAllSentFails ==
  \A t \in Threads :
    (pc[t] = "tcp_unlock" /\ cl[t].shutEarly)
      => (/\ lv[t].sresult = SendFail
          /\ ~sys_socket_network_target_is_open(handle))

\* C4 (amended): a sendto_tcp call one of whose closure checks saw the
\* peer's shutdown (recv returned 0) returns failure, and when it returns
\* is_open is false.
C4_DetectedShutdownFails ==
  [][\A t \in Threads :
       (pc[t] = "tcp_unlock" /\ cl[t].sawClosed)
         => (/\ lv[t].sresult = SendFail
             /\ ~sys_socket_network_target_is_open(handle)
             /\ Returning(t) =>
                  (/\ ret'[t] = SendFail
                   /\ ~sys_socket_network_target_is_open(handle')))]_vars

\* C4 witness: the shutdown was seen after part of the payload was sent.
C4_Witness ==
  \E t \in Threads :
    pc[t] = "tcp_unlock" /\ cl[t].sawClosed /\ lv[t].sent_bytes > 0

\* the statements that pass target->handle to recv, send or close, or test it
HandleReadPcs ==
  {"reopen_check", "reopen_close", "tcp_recv", "tcp_close", "tcp_send",
   "udp_send"}

\* thread t has closed the stored handle and not yet stored its successor
MidMutation(t) == pc[t] \in {"reopen_connect", "tcp_reset"}

\* C5: at most one thread is between its lock and its unlock; no thread is
\* about to read the handle while another is between closing it and storing
\* the new value; the stored handle is a closed connection only inside such a
\* window (or after destroy), so no I/O is issued on a handle another
\* operation has closed.
C5_MutualExclusion ==
  /\ Cardinality({t \in Threads : InCritical(t)}) <= 1
  /\ \A t, u \in Threads :
       (t # u /\ MidMutation(t)) => pc[u] \notin HandleReadPcs
  /\ (handle # ClosedHandle /\ handle \notin live)
       => (destroyed \/ \E t \in Threads : MidMutation(t))

\* C5 witness: one thread is between close and connect of a reopen while the
\* other waits for the mutex in sendto_tcp.
C5_Witness ==
  \E t, u \in Threads :
    t # u /\ pc[t] = "reopen_connect" /\ pc[u] = "tcp_lock"


\* C6: a step of a send operation changes the handle only when sendto_tcp
\* resets it after a closure check saw the peer's shutdown; a send call that
\* fails on an OS send error returns failure and releases the mutex with the
\* handle it found, and so does a successful send call.
C6_SendLeavesHandle ==
  [][\A t \in Threads :
       (op[t].name \in {"sendto_tcp", "sendto_udp"} /\ pc'[t] # pc[t])
         => (/\ (handle' # handle)
                  => (pc[t] = "tcp_reset" /\ cl[t].sawClosed)
             /\ (pc[t] = "tcp_unlock" /\ ~cl[t].sawClosed)
                  => (/\ handle = cl[t].hLock
                      /\ handle' = handle
                      /\ ret'[t] = IF lv[t].send_result = OsError
                                     THEN SendFail ELSE SendOk)
             /\ (pc[t] = "udp_unlock")
                  => (handle = cl[t].hLock /\ ret'[t] = SendOk)
             /\ (pc[t] = "udp_unlock_failed")
                  => (handle = cl[t].hLock /\ handle' = handle)
             /\ (pc[t] = "udp_return_failed")
                  => ret'[t] = SendFail)]_vars

\* C6 witness: a send of sendto_tcp failed on an open connection after part
\* of the payload was sent, and the connection is still open and stored.
C6_Witness ==
  \E t \in Threads :
    /\ pc[t] = "tcp_unlock"
    /\ lv[t].send_result = OsError
    /\ lv[t].sent_bytes > 0
    /\ handle \in live

\* C7: a reopen that finds the closed sentinel makes no connect and no
\* close, leaves the handle at the sentinel and returns the target.
C7_ReopenClosedIsNoOp ==
  [][\A t \in Threads :
       (pc[t] = "reopen_unlock" /\ cl[t].hLock = ClosedHandle)
         => (/\ cl[t].nConnect = 0
             /\ cl[t].nClose = 0
             /\ handle = ClosedHandle
             /\ ~sys_socket_network_target_is_open(handle)
             /\ Returning(t) =>
                  (/\ ret'[t] = TARGET
                   /\ handle' = ClosedHandle
                   /\ live' = live))]_vars

\* C7 witness: reopen_udp6 found the target closed while an earlier
\* connection of the target exists.
C7_Witness ==
  \E t \in Threads :
    /\ pc[t] = "reopen_unlock"
    /\ cl[t].hLock = ClosedHandle
    /\ op[t].variant = "udp6"
    /\ calls > 1

\* C8: an open makes one connect; it stores what connect returned, so the
\* target is open exactly if connect succeeded, and it returns the target
\* exactly if connect succeeded and NULL otherwise.
C8_OpenReportsConnect ==
  [][\A t \in Threads :
       (pc[t] = "open_unlock")
         => (/\ cl[t].nConnect = 1
             /\ handle = cl[t].connected
             /\ sys_socket_network_target_is_open(handle)
                  = (cl[t].connected # ClosedHandle)
             /\ Returning(t) =>
                  (/\ handle' = handle
                   /\ ret'[t] = IF cl[t].connected # ClosedHandle
                                  THEN TARGET ELSE NULL))]_vars

\* C8 witness: an open of an already open target failed.
C8_Witness ==
  \E t \in Threads :
    /\ pc[t] = "open_unlock"
    /\ cl[t].connected = ClosedHandle
    /\ cl[t].hLock # ClosedHandle

\* C9: a reopen that finds the target open closes the stored handle once,
\* then connects once with the family and type of the matching open, stores
\* the result and returns the target; a failed reconnect leaves the closed
\* sentinel.
C9_ReopenOpenReconnects ==
  [][\A t \in Threads :
       /\ (pc[t] = "reopen_connect")
            => (/\ cl[t].nClose = 1
                /\ cl[t].nConnect = 0
                /\ cl[t].closedH = cl[t].hLock
                /\ cl[t].hLock \notin live)
       /\ (pc[t] = "reopen_unlock" /\ cl[t].hLock # ClosedHandle)
            => (/\ cl[t].nClose = 1
                /\ cl[t].closedH = cl[t].hLock
                /\ ~closedTwice
                /\ cl[t].nConnect = 1
                /\ cl[t].conn = <<destination, port,
                                  OpenFamily(op[t].variant),
                                  OpenType(op[t].variant)>>
                /\ handle = cl[t].connected
                /\ (cl[t].connected = ClosedHandle)
                     => ~sys_socket_network_target_is_open(handle)
                /\ Returning(t) => (ret'[t] = TARGET /\ handle' = handle))
    ]_vars

\* C9 witness: the reconnect of reopen_tcp6 on an open target failed.
C9_Witness ==
  \E t \in Threads :
    /\ pc[t] = "reopen_unlock"
    /\ cl[t].hLock # ClosedHandle
    /\ cl[t].connected = ClosedHandle
    /\ op[t].variant = "tcp6"

\* the mutex is held only by a thread that is inside a call
MutexHolderInCall == mutex # NoThread => InCritical(mutex)

\* no call in progress: the mutex is free
MutexFreeWhenQuiet == (\A t \in Threads : pc[t] = "idle") => mutex = NoThread

\* C10: a call that returns has locked the mutex once and unlocked it once
\* and does not hold it; the mutex is never held by a thread that is not
\* inside a call, and is free when no call is in progress.
C10_MutexReleasedOnEveryExit ==
  [][/\ \A t \in Threads :
          Returning(t)
            => (/\ cl[t].nLock = 1
                /\ cl[t].nUnlock
                     + (IF mutex = t /\ mutex' # t THEN 1 ELSE 0) = 1
                /\ mutex' # t)
     /\ MutexHolderInCall /\ MutexHolderInCall'
     /\ MutexFreeWhenQuiet /\ MutexFreeWhenQuiet']_vars

\* C10 witness: sendto_udp left on its failure path, the mutex is free and
\* the other thread is waiting for it.
C10_Witness ==
  \E t, u \in Threads :
    /\ t # u
    /\ pc[t] = "udp_return_failed"
    /\ pc[u] \in LockPcs
    /\ mutex = NoThread


\* C11: a sendto_udp call never changes the handle; when it returns it has
\* made exactly one send call, for msg_size bytes, and no recv, close or
\* connect call, and it returns success exactly when that send reported no
\* OS error; once it has reached its send it returns.
C11_UdpSingleSend ==
  /\ [][\A t \in Threads :
          op[t].name = "sendto_udp" =>
            /\ pc'[t] # pc[t] => handle' = handle
            /\ Returning(t) =>
                 /\ cl[t].nSend = 1
                 /\ cl[t].reqLen = op[t].msg_size
                 /\ cl[t].nRecv = 0
                 /\ cl[t].nClose = 0
                 /\ cl[t].nConnect = 0
                 /\ ret'[t] = IF cl[t].sendFailed THEN SendFail ELSE SendOk
                 /\ cl[t].sendFailed = (lv[t].send_result = OsError)]_vars
  /\ \A t \in Threads : (pc[t] = "udp_send") ~> (pc[t] = "idle")

\* C11 witness: a sendto_udp call on an open target is about to return
\* failure after its one send reported an OS error.
C11_Witness ==
  \E t \in Threads :
    /\ pc[t] = "udp_return_failed"
    /\ cl[t].hLock # ClosedHandle
    /\ cl[t].nSend = 1
    /\ cl[t].sendFailed

\* the number of bytes the send calls of thread t's call have accepted
Accepted(t) == Len(cl[t].wire)

\* C12: a returning sendto_tcp call returns success exactly when its send
\* calls accepted msg_size bytes in total and it saw neither a closed peer
\* nor a send error; it returns failure exactly when it saw a closed peer or
\* a send error, and then fewer than msg_size bytes had been accepted.
C12_TcpResult ==
  [][\A t \in Threads :
       (op[t].name = "sendto_tcp" /\ Returning(t)) =>
         /\ ret'[t] \in {SendOk, SendFail}
         /\ (ret'[t] = SendOk) <=>
              (/\ Accepted(t) = op[t].msg_size
               /\ ~cl[t].sawClosed
               /\ ~cl[t].sendFailed)
         /\ (ret'[t] = SendFail) <=> (cl[t].sawClosed \/ cl[t].sendFailed)
         /\ (ret'[t] = SendFail) => Accepted(t) < op[t].msg_size]_vars

\* C12 witness: a sendto_tcp call is about to return after a send error that
\* followed a send that accepted a part of the payload.
C12_Witness ==
  \E t \in Threads :
    /\ pc[t] = "tcp_unlock"
    /\ cl[t].sendFailed
    /\ Accepted(t) > 0
    /\ lv[t].sresult = SendFail

\* the errors a call has to have reported when it returns
ExpectedErrors(t) ==
  IF cl[t].sawClosed THEN << <<"network_closed">> >>
  ELSE IF cl[t].sendFailed THEN << <<"send_failure", cl[t].sendErrno>> >>
  ELSE << >>

\* C13: a returning sendto_tcp or sendto_udp call that fails has reported
\* exactly one error and one that succeeds has reported none; the error is
\* connection-closed after a zero-length recv, and send-failure with the
\* errno of the failed send after a send error.
C13_OneErrorPerFailure ==
  [][\A t \in Threads :
       (op[t].name \in {"sendto_tcp", "sendto_udp"} /\ Returning(t)) =>
         /\ ret'[t] = SendOk => cl[t].errs = << >>
         /\ ret'[t] = SendFail => Len(cl[t].errs) = 1
         /\ cl[t].errs = ExpectedErrors(t)
         /\ ~(cl[t].sawClosed /\ cl[t].sendFailed)]_vars

\* C13 witness: a sendto_tcp call whose recv failed with EAGAIN and whose
\* send then failed with another errno is about to return, having reported
\* one send-failure.
C13_Witness ==
  \E t \in Threads :
    /\ pc[t] = "tcp_unlock"
    /\ cl[t].sendFailed
    /\ lv[t].recv_result = OsError
    /\ cl[t].errs = << <<"send_failure", "EPIPE">> >>

\* C14: no step changes the target's destination or port, and every connect
\* call of an open or reopen operation is given exactly these two values.
C14_DestinationAndPortFixed ==
  [][/\ destination' = destination
     /\ port' = port
     /\ \A t \in Threads :
          cl'[t].nConnect > cl[t].nConnect =>
            /\ op[t].name \in {"open", "reopen"}
            /\ cl'[t].conn[1] = destination
            /\ cl'[t].conn[2] = port]_vars

\* C14 witness: an open call on the target whose destination is the second
\* host has connected to that host.
C14_Witness ==
  \E t \in Threads :
    /\ pc[t] = "open_store"
    /\ destination = "host2"
    /\ cl[t].nConnect = 1
    /\ cl[t].conn[1] = "host2"
    /\ cl[t].conn[2] = port

\* C15: in a sendto_tcp call every send follows the recv of its iteration;
\* a recv that returns 0 leads to the peer-closed path, any other recv
\* result leads to the send; once a recv returned 0 the call makes no
\* further recv or send, and it returns failure with the handle closed
\* exactly once and reset to the closed sentinel.
C15_ClosureCheckPrecedesSend ==
  [][\A t \in Threads :
       op[t].name = "sendto_tcp" =>
         /\ pc[t] = "tcp_send" => cl[t].nRecv = cl[t].nSend + 1
         /\ pc[t] \in {"tcp_while", "tcp_add", "tcp_send_failed"}
              => cl[t].nRecv = cl[t].nSend
         /\ (pc[t] = "tcp_recv" /\ pc'[t] # pc[t]) =>
              /\ lv'[t].recv_result = 0 => pc'[t] = "tcp_raise_closed"
              /\ lv'[t].recv_result # 0 => pc'[t] = "tcp_send"
         /\ (cl[t].sawClosed /\ ~Returning(t)) =>
              /\ cl'[t].nSend = cl[t].nSend
              /\ cl'[t].nRecv = cl[t].nRecv
              /\ pc'[t] \in {"tcp_raise_closed", "tcp_close", "tcp_reset",
                             "tcp_unlock"}
         /\ (cl[t].sawClosed /\ Returning(t)) =>
              /\ cl[t].nClose = 1
              /\ cl[t].closedH = cl[t].hLock
              /\ cl[t].nSend = cl[t].nRecv - 1
              /\ handle = ClosedHandle
              /\ ret'[t] = SendFail
         /\ (~cl[t].sawClosed /\ Returning(t)) => cl[t].nClose = 0]_vars

\* C15 witness: a sendto_tcp call whose second recv returned 0, after a
\* first iteration that sent, is about to return with the handle closed
\* and reset.
C15_Witness ==
  \E t \in Threads :
    /\ pc[t] = "tcp_unlock"
    /\ cl[t].sawClosed
    /\ cl[t].nRecv = 2
    /\ cl[t].nSend = 1
    /\ cl[t].nClose = 1
    /\ handle = ClosedHandle

\* C17: from init to destroy no close call is given a handle that is
\* already closed nor the closed sentinel, and destroy closes the stored
\* handle exactly when the target is open.
C17_NoDoubleClose ==
  [][/\ ~closedTwice'
     /\ ~closedNone'
     /\ (destroyed' /\ ~destroyed) =>
          IF sys_socket_network_target_is_open(handle)
            THEN handle \in live /\ live' = live \ {handle}
            ELSE live' = live]_vars

\* C17 witness: the target was destroyed after MaxCalls calls had returned,
\* and the destroy closed the open connection the handle named, the only
\* one there was.
C17_Witness ==
  /\ destroyed
  /\ calls = MaxCalls
  /\ handle # ClosedHandle
  /\ live = {}
  /\ ~closedTwice

\* C18: in a sendto_tcp call sent_bytes stays between 0 and msg_size, and
\* every send call is asked for msg_size - sent_bytes bytes, a count of at
\* least 1 and at most msg_size.
C18_SentBytesInRange ==
  \A t \in Threads :
    op[t].name = "sendto_tcp" =>
      /\ 0 <= lv[t].sent_bytes
      /\ lv[t].sent_bytes <= op[t].msg_size
      /\ pc[t] = "tcp_send" =>
           /\ TcpSendLen(op[t].msg_size, lv[t].sent_bytes) >= 1
           /\ TcpSendLen(op[t].msg_size, lv[t].sent_bytes)
                = op[t].msg_size - lv[t].sent_bytes
      /\ cl[t].nSend > 0 =>
           (cl[t].reqLen >= 1 /\ cl[t].reqLen <= op[t].msg_size)
      /\ pc[t] = "tcp_add" =>
           lv[t].sent_bytes + lv[t].send_result <= op[t].msg_size

\* C18 witness: the second send of a call is asked for the one byte that
\* is left of a two-byte payload.
C18_Witness ==
  \E t \in Threads :
    /\ pc[t] = "tcp_add"
    /\ op[t].msg_size = 2
    /\ cl[t].nSend = 2
    /\ cl[t].reqLen = 1
    /\ lv[t].sent_bytes = 1

\* C19: a sendto_tcp call with msg_size 0 returns success having locked and
\* unlocked the mutex once and made no recv, send or close call, and leaves
\* the handle as it was, whatever state the target is in; a call with
\* msg_size above 0 on a target whose handle is the closed sentinel returns
\* failure and leaves the handle at the sentinel.
C19_EmptyAndClosedSends ==
  [][\A t \in Threads :
       op[t].name = "sendto_tcp" =>
         /\ (op[t].msg_size = 0 /\ pc'[t] # pc[t] /\ pc[t] # "tcp_lock")
              => (handle' = handle /\ mutex = t)
         /\ (op[t].msg_size = 0 /\ Returning(t)) =>
              /\ ret'[t] = SendOk
              /\ cl[t].nLock = 1
              /\ mutex' = NoThread
              /\ cl[t].nRecv = 0
              /\ cl[t].nSend = 0
              /\ cl[t].nClose = 0
              /\ handle = cl[t].hLock
         /\ (op[t].msg_size > 0 /\ cl[t].hLock = ClosedHandle
               /\ cl[t].nLock = 1 /\ Returning(t)) =>
              /\ ret'[t] = SendFail
              /\ handle' = ClosedHandle]_vars

\* C19 witness: a sendto_tcp call with msg_size 0 is about to return from a
\* target whose peer has shut the connection down.
C19_Witness ==
  \E t \in Threads :
    /\ pc[t] = "tcp_unlock"
    /\ op[t].msg_size = 0
    /\ handle \in peerShut

\* C16 (as claimed): every sendto_tcp call that has entered its loop
\* returns, whatever the send calls accept (zero bytes included).
C16_SendtoTcpReturns ==
  \A t \in Threads : (pc[t] = "tcp_while") ~> (pc[t] = "idle")

\* C16 (amended): every sendto_tcp call that has entered its loop returns,
\* unless one of its send calls accepted zero bytes; as long as none did,
\* the call has made at most msg_size send calls.
C16_SendtoTcpReturnsOnProgress ==
  /\ \A t \in Threads :
       (pc[t] = "tcp_while" /\ cl[t].nZero = 0)
         ~> (pc[t] = "idle" \/ cl[t].nZero > 0)
  /\ [](\A t \in Threads :
         (op[t].name = "sendto_tcp" /\ cl[t].nZero = 0)
           => cl[t].nSend <= op[t].msg_size)

\* C16 witness: a call left its loop after two sends that each accepted a
\* part of the payload.
C16_Witness ==
  \E t \in Threads :
    pc[t] = "tcp_unlock" /\ cl[t].nSend = 2 /\ cl[t].nZero = 0
      /\ lv[t].sresult = SendOk


====
